---- MODULE Spec2Model ----
(***************************************************************************)
(* Model of the SMHI event viewer.                                         *)
(*                                                                         *)
(*   geocode_events.py  the enrichment pipeline: main() and its closure    *)
(*                      fill_lat_lon over geo_cache and stats              *)
(*   app.py             the query layer: year-label resolution, the        *)
(*                      map-mode mask and the time-lapse mask              *)
(*                                                                         *)
(* Spec is the pipeline run, QuerySpec is one viewer session.              *)
(***************************************************************************)
EXTENDS Integers, Sequences, FiniteSets, TLC

VARIABLES
    \* ---- geocode_events.py: main() ----
    events,         \* the DataFrame: a sequence of rows
    initial,        \* history: events as it stood before the geocoding pass
    n_missing,      \* rows with a missing coordinate before the pass
    geo_cache,      \* key -> <<lat, lon>>
    stats,          \* the counters dictionary
    applied,        \* results of events.apply so far, one pair per row done
    missing_after,  \* the recount after the pass
    store,          \* the table written to the database
    pc,             \* position in main()
    geo,            \* the geocoding service: query text -> answer
    queryLog,       \* history: one record per geocode() call
    lookups,        \* history: the lookups made for the row just handled
    \* ---- app.py ----
    df,             \* the loaded table
    loaded,         \* history: df as load_events returned it
    qpc,            \* position of the session
    selected_year_labels,
    selected_years,
    selected_types,
    filtered,       \* map mode: indices of the rows of df[mask]
    year_text,
    year_tl,
    cumulative,
    selected_types_tl,
    df_tl           \* time-lapse: indices of the rows of df[tl_mask]

pipeVars == <<events, initial, n_missing, geo_cache, stats, applied,
              missing_after, store, pc, geo, queryLog, lookups>>
queryVars == <<df, loaded, qpc, selected_year_labels, selected_years,
               selected_types, filtered, year_text, year_tl, cumulative,
               selected_types_tl, df_tl>>
vars == <<pipeVars, queryVars>>

-----------------------------------------------------------------------------
(* Bounds *)
MaxRows == 2

-----------------------------------------------------------------------------
(* Values *)

\* A missing coordinate (None / NaN after clean_number).
NaN == 0

notna(x) == x # NaN
isna(x) == x = NaN

\* Text is a sequence of characters.
Whitespace == {" "}

lowerChar(c) == IF c = "A" THEN "a" ELSE IF c = "B" THEN "b" ELSE c

lower(s) == [i \in 1..Len(s) |-> lowerChar(s[i])]

RECURSIVE lstrip(_)
lstrip(s) == IF s # <<>> /\ Head(s) \in Whitespace THEN lstrip(Tail(s)) ELSE s

RECURSIVE rstrip(_)
rstrip(s) ==
    IF s # <<>> /\ s[Len(s)] \in Whitespace
    THEN rstrip(SubSeq(s, 1, Len(s) - 1))
    ELSE s

strip(s) == rstrip(lstrip(s))

COUNTRY_SUFFIX == <<",", " ", "Sweden">>

\* A Location cell: text, or something that is not text (None, NaN, a number).
Text(s) == [isStr |-> TRUE, s |-> s]
NotText == [isStr |-> FALSE, s |-> <<>>]

Locations ==
    { NotText, Text(<<" ">>), Text(<<"a">>), Text(<<"A", " ">>), Text(<<"b">>) }

Latitudes == {NaN, 55}
Longitudes == {NaN, 13}

Rows == [Latitude : Latitudes, Longitude : Longitudes, Location : Locations]

Tables == UNION { [1..n -> Rows] : n \in 0..MaxRows }

\* What the geocoding service answers to one query text.
NoMatch == [found |-> FALSE, latitude |-> NaN, longitude |-> NaN]
Match(la, lo) == [found |-> TRUE, latitude |-> la, longitude |-> lo]

\* The service either knows a query text or does not; what it knows depends
\* on the text as sent.
Answers(q) == {NoMatch, IF q[1] = "A" THEN Match(59, 18) ELSE Match(57, 12)}

\* A test of the place name that does not trim it.
usable_untrimmed(place) == place.isStr /\ place.s # <<>>

\* isinstance(place, str) and place.strip()
usable(place) == place.isStr /\ strip(place.s) # <<>>

Queries == { l.s \o COUNTRY_SUFFIX : l \in { p \in Locations : usable(p) } }

Geocoders == { g \in [Queries -> UNION { Answers(q) : q \in Queries }] :
                 \A q \in Queries : g[q] \in Answers(q) }

-----------------------------------------------------------------------------
(* geocode_events.py *)

max_retries == 2

missing(row) == isna(row.Latitude) \/ isna(row.Longitude)

missing_mask(t) == { i \in 1..Len(t) : missing(t[i]) }

cacheKey(place) == lower(strip(place.s))

\* A fill_lat_lon without its first early return.
branch_noKeep(row, cache) ==
    IF ~usable(row.Location) THEN "noplace"
    ELSE IF cacheKey(row.Location) \in DOMAIN cache THEN "hit"
    ELSE "miss"

\* Which path of fill_lat_lon a row takes.
branch(row, cache) ==
    IF notna(row.Latitude) /\ notna(row.Longitude) THEN "keep"
    ELSE IF ~usable(row.Location) THEN "noplace"
    ELSE IF cacheKey(row.Location) \in DOMAIN cache THEN "hit"
    ELSE "miss"

\* A miss that takes only the latitude of the match.
missResult_latOnly(row, loc) ==
    IF loc.found
    THEN <<loc.latitude, row.Longitude>>
    ELSE <<row.Latitude, row.Longitude>>

\* The result of a miss, from what geocode() returned (None is NoMatch).
missResult(row, loc) ==
    IF loc.found
    THEN <<loc.latitude, loc.longitude>>
    ELSE <<row.Latitude, row.Longitude>>

\* A cache that remembers resolved locations only.
cachePut_resolvedOnly(cache, key, result) ==
    IF notna(result[1]) /\ notna(result[2])
    THEN [k \in DOMAIN cache \cup {key} |-> IF k = key THEN result ELSE cache[k]]
    ELSE cache

\* geo_cache[key] = result
cachePut(cache, key, result) ==
    [k \in DOMAIN cache \cup {key} |-> IF k = key THEN result ELSE cache[k]]

\* No script run of the viewer has computed anything.
noQuery ==
    /\ selected_year_labels = {}
    /\ selected_years = << >>
    /\ selected_types = {}
    /\ filtered = << >>
    /\ year_text = << >>
    /\ year_tl = 0
    /\ cumulative = FALSE
    /\ selected_types_tl = {}
    /\ df_tl = << >>

\* The query texts the rows of a table can send; what the service would say
\* to any other text plays no part in the run.
askable(t) ==
    { t[i].Location.s \o COUNTRY_SUFFIX :
        i \in { j \in DOMAIN t : missing(t[j]) /\ usable(t[j].Location) } }

Init ==
    /\ events \in Tables
    /\ initial = events
    /\ n_missing = Cardinality(missing_mask(events))
    /\ geo_cache = << >>
    /\ stats = [rows_total |-> Len(events),
                rows_with_missing |-> Cardinality(missing_mask(events)),
                cache_hits |-> 0,
                api_queries |-> 0,
                locations_geocoded |-> 0,
                locations_unresolved |-> 0]
    /\ applied = << >>
    /\ missing_after = 0
    /\ store = << >>
    /\ pc = "geocode"
    /\ geo \in { g \in Geocoders :
                   \A q \in Queries \ askable(events) : g[q] = NoMatch }
    /\ queryLog = << >>
    /\ lookups = 0
    /\ df = << >>
    /\ loaded = << >>
    /\ qpc = "off"
    /\ noQuery

\* stats["cache_hits"] += 1
statsAfterHit(st) == [st EXCEPT !.cache_hits = @ + 1]

\* A miss that forgets to count the locations it could not resolve.
statsAfterMiss_resolvedOnly(st, found) ==
    [st EXCEPT !.api_queries = @ + 1,
               !.locations_geocoded = IF found THEN @ + 1 ELSE @]

\* stats["api_queries"] += 1, then one of the two outcome counters
statsAfterMiss(st, found) ==
    [st EXCEPT !.api_queries = @ + 1,
               !.locations_geocoded = IF found THEN @ + 1 ELSE @,
               !.locations_unresolved = IF found THEN @ ELSE @ + 1]

\* The row events.apply hands to fill_lat_lon next.
cur == Len(applied) + 1

applying(b) ==
    /\ pc = "geocode"
    /\ n_missing > 0
    /\ cur <= Len(events)
    /\ branch(events[cur], geo_cache) = b

\* fill_lat_lon: "If we already have coordinates, keep them".
KeepCoordinates ==
    /\ applying("keep")
    /\ applied' = Append(applied, <<events[cur].Latitude, events[cur].Longitude>>)
    /\ lookups' = 0
    /\ UNCHANGED <<events, initial, n_missing, geo_cache, stats, missing_after,
                   store, pc, geo, queryLog>>
    /\ UNCHANGED queryVars

\* fill_lat_lon: "No usable place name -> nothing we can do".
NoUsablePlace ==
    /\ applying("noplace")
    /\ applied' = Append(applied, <<events[cur].Latitude, events[cur].Longitude>>)
    /\ lookups' = 0
    /\ UNCHANGED <<events, initial, n_missing, geo_cache, stats, missing_after,
                   store, pc, geo, queryLog>>
    /\ UNCHANGED queryVars

\* fill_lat_lon: cache hit.
CacheHit ==
    /\ applying("hit")
    /\ stats' = statsAfterHit(stats)
    /\ applied' = Append(applied, geo_cache[cacheKey(events[cur].Location)])
    /\ lookups' = 0
    /\ UNCHANGED <<events, initial, n_missing, geo_cache, missing_after,
                   store, pc, geo, queryLog>>
    /\ UNCHANGED queryVars

\* How one geocode() call through the RateLimiter can end: with the service's
\* answer, with the retries used up, or with an error that is not retried.
CallEnds == {"answer", "exhausted", "raised"}

isError(end) == end # "answer"

\* A handler for the retried service errors only.
caught_serviceOnly(end) == end = "exhausted"

\* try: loc = geocode(query) / except Exception: loc = None
caught(end) == isError(end)

\* The lookups one geocode() call makes: the first and, after each of `fails`
\* service errors, a retry, max_retries retries at most.
attemptsMade(end, fails) ==
    IF end = "exhausted" THEN max_retries + 1 ELSE fails + 1

\* fill_lat_lon: cache miss, one geocode() call through the RateLimiter.  The
\* service fails `fails` times in a row before the call ends (the retries are
\* used up when every one of them failed as well); any error leaves
\* loc = None.
CacheMiss ==
    /\ applying("miss")
    /\ \E end \in CallEnds :
       \E fails \in { f \in 0..max_retries :
                        end = "exhausted" => f = max_retries } :
         LET row == events[cur]
             key == cacheKey(row.Location)
             query == row.Location.s \o COUNTRY_SUFFIX
             loc == IF isError(end) THEN NoMatch ELSE geo[query]
             result == missResult(row, loc)
         IN  IF isError(end) /\ ~caught(end)
             THEN /\ pc' = "aborted"
                  /\ stats' = [stats EXCEPT !.api_queries = @ + 1]
                  /\ lookups' = attemptsMade(end, fails)
                  /\ UNCHANGED <<geo_cache, applied, queryLog>>
             ELSE /\ stats' = statsAfterMiss(stats, loc.found)
                  /\ geo_cache' = cachePut(geo_cache, key, result)
                  /\ applied' = Append(applied, result)
                  /\ queryLog' = Append(queryLog,
                         [row |-> cur, key |-> key, query |-> query,
                          found |-> loc.found])
                  /\ lookups' = attemptsMade(end, fails)
                  /\ pc' = pc
    /\ UNCHANGED <<events, initial, n_missing, missing_after, store, geo>>
    /\ UNCHANGED queryVars

\* main: n_missing = 0, the pass is skipped.
SkipGeocoding ==
    /\ pc = "geocode"
    /\ n_missing = 0
    /\ missing_after' = 0
    /\ pc' = "save"
    /\ UNCHANGED <<events, initial, n_missing, geo_cache, stats, applied,
                   store, geo, queryLog, lookups>>
    /\ UNCHANGED queryVars

\* main: the two columns are assigned from the applied results, and the
\* missing rows are recounted.
AssignColumns ==
    /\ pc = "geocode"
    /\ n_missing > 0
    /\ Len(applied) = Len(events)
    /\ events' = [i \in 1..Len(events) |->
                    [events[i] EXCEPT !.Latitude = applied[i][1],
                                      !.Longitude = applied[i][2]]]
    /\ missing_after' = Cardinality(missing_mask(events'))
    /\ pc' = "save"
    /\ lookups' = 0
    /\ UNCHANGED <<initial, n_missing, geo_cache, stats, applied, store, geo,
                   queryLog>>
    /\ UNCHANGED queryVars

\* main: the table replaces the stored one.
Save ==
    /\ pc = "save"
    /\ store' = events
    /\ pc' = "finished"
    /\ UNCHANGED <<events, initial, n_missing, geo_cache, stats, applied,
                   missing_after, geo, queryLog, lookups>>
    /\ UNCHANGED queryVars

Next ==
    \/ KeepCoordinates
    \/ NoUsablePlace
    \/ CacheHit
    \/ CacheMiss
    \/ SkipGeocoding
    \/ AssignColumns
    \/ Save

Spec == Init /\ [][Next]_vars

\* main runs on one thread and is never suspended for good: a step that can
\* be taken is taken.
FairSpec == Spec /\ WF_vars(Next)

TypeOK ==
    /\ pc \in {"geocode", "save", "finished", "aborted"}
    /\ Len(applied) <= Len(events)

-----------------------------------------------------------------------------
(* Properties of the enrichment pipeline *)

coords(row) == <<row.Latitude, row.Longitude>>

\* A candidate for resolution: a coordinate is missing, the location is usable.
candidate(row) == missing(row) /\ usable(row.Location)

\* The rows fill_lat_lon has handled so far (none when the pass is skipped).
handled == 1..Len(applied)

logOf(key) == { j \in DOMAIN queryLog : queryLog[j].key = key }

firstCandidate(key) ==
    CHOOSE r \in DOMAIN initial :
        /\ candidate(initial[r]) /\ cacheKey(initial[r].Location) = key
        /\ \A q \in 1..(r - 1) :
             ~(candidate(initial[q]) /\ cacheKey(initial[q].Location) = key)

\* C1: within one run the geocoder is queried at most once per cache key
\* (location trimmed and lower-cased): the one query is issued by the first
\* candidate row with that key, later candidate rows with the key issue none,
\* and all candidate rows sharing a key receive the same coordinate result.
C1_OneQueryPerKey ==
    /\ \A j, k \in DOMAIN queryLog :
         queryLog[j].key = queryLog[k].key => j = k
    /\ stats.api_queries = Len(queryLog)
    /\ \A r \in handled :
         candidate(initial[r]) =>
            LET key == cacheKey(initial[r].Location)
            IN  /\ Cardinality(logOf(key)) = 1
                /\ \A j \in logOf(key) : queryLog[j].row = firstCandidate(key)
                /\ key \in DOMAIN geo_cache
                /\ applied[r] = geo_cache[key]
    /\ \A r1, r2 \in handled :
         ( /\ candidate(initial[r1]) /\ candidate(initial[r2])
           /\ cacheKey(initial[r1].Location) = cacheKey(initial[r2].Location) )
         => applied[r1] = applied[r2]

\* Two candidate rows whose location texts differ but share a key were both
\* handled: one query, one cache hit.
C1_Witness ==
    /\ pc = "finished"
    /\ Len(initial) = 2
    /\ candidate(initial[1]) /\ candidate(initial[2])
    /\ initial[1].Location # initial[2].Location
    /\ cacheKey(initial[1].Location) = cacheKey(initial[2].Location)
    /\ Len(queryLog) = 1
    /\ stats.cache_hits = 1
    /\ ~queryLog[1].found

\* The location of a candidate row turned out Unresolved.
unresolved(r) ==
    /\ candidate(initial[r])
    /\ \E j \in DOMAIN queryLog :
         queryLog[j].key = cacheKey(initial[r].Location) /\ ~queryLog[j].found

\* C2: a candidate row whose location is Unresolved, by its own query or by a
\* cached unresolved entry, has after enrichment exactly the Latitude and
\* Longitude it had before.
C2_UnresolvedKeepsOwn ==
    (pc # "geocode" /\ n_missing > 0) =>
        \A r \in DOMAIN events :
            unresolved(r) => coords(events[r]) = coords(initial[r])

deterministicRun ==
    \A j \in DOMAIN queryLog : queryLog[j].found = geo[queryLog[j].query].found

rowOrders(n) == { p \in [1..n -> 1..n] : \A i, j \in 1..n : p[i] = p[j] => i = j }

\* The pass over a table as events.apply runs it, with a service that answers g.
RECURSIVE applyAll(_, _, _, _)
applyAll(t, g, cache, acc) ==
    IF Len(acc) = Len(t) THEN acc
    ELSE LET row == t[Len(acc) + 1]
             b == branch(row, cache)
             res == IF b \in {"keep", "noplace"} THEN coords(row)
                    ELSE IF b = "hit" THEN cache[cacheKey(row.Location)]
                    ELSE missResult(row, g[row.Location.s \o COUNTRY_SUFFIX])
             cache2 == IF b = "miss"
                       THEN cachePut(cache, cacheKey(row.Location), res)
                       ELSE cache
         IN  applyAll(t, g, cache2, Append(acc, res))

enrich(t, g) ==
    IF missing_mask(t) = {} THEN [i \in DOMAIN t |-> coords(t[i])]
    ELSE applyAll(t, g, << >>, << >>)

\* C3: with a deterministic geocoder the final dataset does not depend on the
\* order in which the rows are processed: under every permutation of the input
\* rows each row ends with the same Latitude and Longitude.
C3_OrderIndependent ==
    (pc = "finished" /\ deterministicRun) =>
        \A p \in rowOrders(Len(initial)) :
            LET out == enrich([i \in DOMAIN initial |-> initial[p[i]]], geo)
            IN  \A i \in DOMAIN initial : out[i] = coords(store[p[i]])

both(row) == notna(row.Latitude) /\ notna(row.Longitude)
neither(row) == isna(row.Latitude) /\ isna(row.Longitude)
exactlyOne(row) == ~both(row) /\ ~neither(row)

\* C4 as stated: every row written to the store has Latitude and Longitude
\* both present or both absent.
C4_PairOrNothing ==
    pc = "finished" => \A i \in DOMAIN store : both(store[i]) \/ neither(store[i])

resolved(r) ==
    /\ candidate(initial[r])
    /\ \E j \in DOMAIN queryLog :
         queryLog[j].key = cacheKey(initial[r].Location) /\ queryLog[j].found

\* C4 as amended: a row whose location the geocoder resolved (by its own query
\* or from the cache) and a row that arrived with both coordinates is written
\* with both; a row is written with exactly one coordinate only if it arrived
\* with exactly that one and had no usable location, or if it is a candidate
\* whose location was Unresolved.
C4_ResolvedAsPair ==
    pc = "finished" =>
        \A i \in DOMAIN store :
            /\ (n_missing > 0 /\ resolved(i)) => both(store[i])
            /\ both(initial[i]) => both(store[i])
            /\ exactlyOne(store[i]) =>
                 \/ /\ ~usable(initial[i].Location)
                    /\ coords(store[i]) = coords(initial[i])
                 \/ unresolved(i)

\* A row arrived without coordinates, was resolved and is written with both,
\* next to a row written with the one coordinate it arrived with.
C4_Witness ==
    /\ pc = "finished"
    /\ \E i, j \in DOMAIN store :
         /\ neither(initial[i]) /\ resolved(i) /\ both(store[i])
         /\ exactlyOne(store[j]) /\ ~usable(initial[j].Location)

\* C5: after every run still_missing <= initially_missing <= total_rows, where
\* initially_missing counts the rows lacking a coordinate before the pass and
\* still_missing those lacking one after it; no row that had both coordinates
\* before the pass lacks one after it.
C5_MissingCounts ==
    pc = "finished" =>
        /\ missing_after <= stats.rows_with_missing
        /\ stats.rows_with_missing <= stats.rows_total
        /\ stats.rows_with_missing = Cardinality(missing_mask(initial))
        /\ stats.rows_total = Len(store)
        /\ missing_after = Cardinality(missing_mask(store))
        /\ missing_mask(store) \subseteq missing_mask(initial)

\* A complete row came after an unresolved row with the same key, so that the
\* cache held an incomplete pair for its location when it was handled.
C5_Witness ==
    /\ pc = "finished"
    /\ n_missing > 0
    /\ \E i, j \in DOMAIN initial :
         /\ j < i
         /\ unresolved(j)
         /\ both(initial[i])
         /\ usable(initial[i].Location)
         /\ cacheKey(initial[i].Location) = cacheKey(initial[j].Location)
    /\ missing_after < stats.rows_total

-----------------------------------------------------------------------------
(* app.py *)

MaxRowsQ == 2

Years == {1999, 2000, 2002}
Sheets == {"rain", "snow"}

\* A row of the loaded table; year is NaN when the Date did not parse.
QRows == [year : Years \cup {NaN}, Sheet : Sheets]

QTables == UNION { [1..n -> QRows] : n \in 0..MaxRowsQ }

Range(f) == { f[i] : i \in DOMAIN f }

\* sorted(...) of a set of integers
RECURSIVE sorted(_)
sorted(S) ==
    IF S = {} THEN << >>
    ELSE LET m == CHOOSE x \in S : \A y \in S : x <= y
         IN  <<m>> \o sorted(S \ {m})

\* df[mask]: the index labels of the rows the mask keeps, in table order
select(mask) == sorted({ i \in DOMAIN mask : mask[i] })

all_years(t) == sorted({ t[i].year : i \in { j \in DOMAIN t : notna(t[j].year) } })

decadeOf(y) == (y \div 10) * 10

decades(t) == sorted({ decadeOf(y) : y \in Range(all_years(t)) })

decadeLabel(d) == <<ToString(d), "s">>
yearLabel(y) == <<ToString(y)>>

decade_labels(t) == [i \in DOMAIN decades(t) |-> decadeLabel(decades(t)[i])]
year_labels(t) == [i \in DOMAIN all_years(t) |-> yearLabel(all_years(t)[i])]

\* A decade that runs one year too long.
inDecade_elevenYears(d, y) == d <= y /\ y <= d + 10

inDecade(d, y) == d <= y /\ y <= d + 9

\* The dictionary label -> list of years; the decade loop runs second.
label_to_years(t) ==
    LET ys == all_years(t)
        ds == { decadeOf(y) : y \in Range(ys) }
    IN  [l \in { yearLabel(y) : y \in Range(ys) } \cup { decadeLabel(d) : d \in ds } |->
            IF \E d \in ds : decadeLabel(d) = l
            THEN LET d == CHOOSE d \in ds : decadeLabel(d) = l
                     inD(y) == inDecade(d, y)
                 IN  SelectSeq(ys, inD)
            ELSE <<CHOOSE y \in Range(ys) : yearLabel(y) = l>>]

year_options(t) == decade_labels(t) \o year_labels(t)

\* dict.get(label, [])
getYears(dict, label) ==
    IF label \in DOMAIN dict THEN dict[label] ELSE << >>

\* The sidebar's resolution of the selected labels into concrete years.
resolveYears(t, labels) ==
    IF labels # {}
    THEN LET dict == label_to_years(t)
         IN  sorted(UNION { Range(getYears(dict, l)) : l \in labels })
    ELSE all_years(t)

type_options(t) == { t[i].Sheet : i \in DOMAIN t }

\* Series.isin
isin(v, S) == v \in S

\* A category filter that takes an empty selection literally.
mapMask_literalTypes(t, years, types) ==
    [i \in DOMAIN t |->
        isin(t[i].year, Range(years)) /\ isin(t[i].Sheet, types)]

\* A year filter that also lets the rows without a year through.
mapMask_keepsNoYear(t, years, types) ==
    [i \in DOMAIN t |->
        /\ (isin(t[i].year, Range(years)) \/ isna(t[i].year))
        /\ (types # {} => isin(t[i].Sheet, types))]

\* The map-mode mask.
mapMask(t, years, types) ==
    [i \in DOMAIN t |->
        /\ isin(t[i].year, Range(years))
        /\ (types # {} => isin(t[i].Sheet, types))]

yearText(years) ==
    IF years # << >>
    THEN IF Len(years) > 1
         THEN <<ToString(years[1]), "-", ToString(years[Len(years)])>>  \* an en dash
         ELSE <<ToString(years[1])>>
    ELSE <<"all years">>

\* A cumulative mask that stops short of the target year.
tlMask_strict(t, target, cum, types) ==
    [i \in DOMAIN t |->
        /\ notna(t[i].year)
        /\ IF cum THEN t[i].year < target ELSE t[i].year = target
        /\ (types # {} => isin(t[i].Sheet, types))]

\* The time-lapse mask; a comparison with a NaN year is False.
tlMask(t, target, cum, types) ==
    [i \in DOMAIN t |->
        /\ notna(t[i].year)
        /\ IF cum THEN t[i].year <= target ELSE t[i].year = target
        /\ (types # {} => isin(t[i].Sheet, types))]

min_year_data(t) == all_years(t)[1]
max_year_data(t) == all_years(t)[Len(all_years(t))]

pipelineOff ==
    /\ events = << >>
    /\ initial = << >>
    /\ n_missing = 0
    /\ geo_cache = << >>
    /\ stats = [rows_total |-> 0, rows_with_missing |-> 0, cache_hits |-> 0,
                api_queries |-> 0, locations_geocoded |-> 0,
                locations_unresolved |-> 0]
    /\ applied = << >>
    /\ missing_after = 0
    /\ store = << >>
    /\ pc = "off"
    /\ geo = << >>
    /\ queryLog = << >>
    /\ lookups = 0

\* load_events has returned the table.
QueryInit ==
    /\ pipelineOff
    /\ df \in QTables
    /\ loaded = df
    /\ qpc = "loaded"
    /\ noQuery

\* A query that narrows the shared table itself to the rows it shows.
dfAfterQuery_inPlace(t, mask) == [k \in 1..Len(select(mask)) |-> t[select(mask)[k]]]

\* The shared table after df[mask].copy(): the rows shown are a new frame.
dfAfterQuery(t, mask) == t

\* The map branch of one script run, for what the sidebar widgets hold.
runMap(labels, types) ==
    /\ df' = dfAfterQuery(df, mapMask(df, resolveYears(df, labels), types))
    /\ selected_year_labels' = labels
    /\ selected_years' = resolveYears(df, labels)
    /\ selected_types' = types
    /\ filtered' = select(mapMask(df, selected_years', types))
    /\ year_text' = yearText(selected_years')
    /\ year_tl' = 0
    /\ cumulative' = FALSE
    /\ selected_types_tl' = {}
    /\ df_tl' = << >>
    /\ qpc' = "map"

\* df.empty: st.stop()
StopEmpty ==
    /\ qpc = "loaded"
    /\ df = << >>
    /\ qpc' = "stopped"
    /\ UNCHANGED <<df, loaded, selected_year_labels, selected_years,
                   selected_types, filtered, year_text, year_tl, cumulative,
                   selected_types_tl, df_tl>>
    /\ UNCHANGED pipeVars

\* min(all_years) of an empty list raises ValueError.
StartupError ==
    /\ qpc = "loaded"
    /\ df # << >>
    /\ all_years(df) = << >>
    /\ qpc' = "error"
    /\ UNCHANGED <<df, loaded, selected_year_labels, selected_years,
                   selected_types, filtered, year_text, year_tl, cumulative,
                   selected_types_tl, df_tl>>
    /\ UNCHANGED pipeVars

\* The first script run: every widget at its default, view "Map".
Startup ==
    /\ qpc = "loaded"
    /\ df # << >>
    /\ all_years(df) # << >>
    /\ runMap(Range(decade_labels(df)), type_options(df))
    /\ UNCHANGED loaded
    /\ UNCHANGED pipeVars

\* A rerun with the view on "Map".
MapQuery ==
    /\ qpc \in {"map", "timelapse"}
    /\ \E labels \in SUBSET Range(year_options(df)) :
       \E types \in SUBSET type_options(df) :
          runMap(labels, types)
    /\ UNCHANGED loaded
    /\ UNCHANGED pipeVars

\* A rerun with the view on "Time-lapse".  The time-lapse branch reads
\* nothing of the sidebar's year and type selection, and a later map run
\* reads the widgets afresh, so the selection is not carried through here.
TimelapseQuery ==
    /\ qpc \in {"map", "timelapse"}
    /\ \E target \in min_year_data(df)..max_year_data(df) :
       \E cum \in BOOLEAN :
       \E types \in SUBSET type_options(df) :
          /\ year_tl' = target
          /\ cumulative' = cum
          /\ selected_types_tl' = types
          /\ df_tl' = select(tlMask(df, target, cum, types))
          /\ df' = dfAfterQuery(df, tlMask(df, target, cum, types))
    /\ selected_year_labels' = {}
    /\ selected_years' = << >>
    /\ selected_types' = {}
    /\ filtered' = << >>
    /\ year_text' = << >>
    /\ qpc' = "timelapse"
    /\ UNCHANGED loaded
    /\ UNCHANGED pipeVars

QueryNext ==
    \/ StopEmpty
    \/ StartupError
    \/ Startup
    \/ MapQuery
    \/ TimelapseQuery

QuerySpec == QueryInit /\ [][QueryNext]_vars

QueryTypeOK ==
    /\ qpc \in {"loaded", "stopped", "error", "map", "timelapse"}
    /\ df = loaded

-----------------------------------------------------------------------------
(* Properties of the query layer *)

rowsOf(result) == Range(result)

yearSet == { df[i].year : i \in { j \in DOMAIN df : notna(df[j].year) } }

labelYears(l) ==
    { y \in yearSet : l = <<ToString(y)>> }
    \cup { y \in yearSet :
             \E d \in { 10 * k : k \in 0..300 } :
                 l = <<ToString(d), "s">> /\ d <= y /\ y <= d + 9 }

\* C7: selected_years is the union of the years of the selected labels, a year
\* label standing for that year and a decade label "Ds" for the years of
\* all_years in D..D+9; every year of all_years is in exactly one offered
\* decade and no offered decade is empty; with no label selected,
\* selected_years is all of all_years.
C7_LabelResolution ==
    qpc = "map" =>
        /\ rowsOf(selected_years) =
              IF selected_year_labels = {} THEN yearSet
              ELSE UNION { labelYears(l) : l \in selected_year_labels }
        /\ selected_years # << >>
        /\ \A y \in yearSet :
              Cardinality({ l \in rowsOf(decade_labels(df)) :
                              y \in rowsOf(label_to_years(df)[l]) }) = 1
        /\ \A l \in rowsOf(decade_labels(df)) : label_to_years(df)[l] # << >>
        /\ rowsOf(all_years(df)) = yearSet

\* A decade label is selected while the data has a year of the next decade,
\* and that year is not selected.
C7_Witness ==
    /\ qpc = "map"
    /\ selected_year_labels = {<<"1990", "s">>}
    /\ selected_years = <<1999>>
    /\ 2000 \in yearSet

C9_YearText ==
    qpc = "map" =>
        year_text =
            IF selected_year_labels = {} THEN <<"all years">>
            ELSE IF Cardinality(rowsOf(selected_years)) > 1
            THEN LET lo == CHOOSE y \in rowsOf(selected_years) :
                              \A z \in rowsOf(selected_years) : y <= z
                     hi == CHOOSE y \in rowsOf(selected_years) :
                              \A z \in rowsOf(selected_years) : y >= z
                 IN  <<ToString(lo), "-", ToString(hi)>>
            ELSE <<ToString(selected_years[1])>>

typeOK(i, types) == types # {} => df[i].Sheet \in types

-----------------------------------------------------------------------------
(* Properties of the pipeline, continued *)

C11_Bounded ==
    /\ pc # "aborted"
    /\ lookups \in 0..(max_retries + 1)
    /\ (lookups >= 1) =>
          /\ queryLog # << >>
          /\ queryLog[Len(queryLog)].row = Len(applied)
    /\ \A j \in DOMAIN queryLog :
         /\ queryLog[j].key \in DOMAIN geo_cache
         /\ queryLog[j].row \in handled
    /\ stats.locations_unresolved =
          Cardinality({ j \in DOMAIN queryLog : ~queryLog[j].found })
    /\ (queryLog # << >> /\ pc = "geocode") =>
          (Len(applied) < Len(events) \/ ENABLED AssignColumns)

\* C11: a geocoding failure never aborts the run.  Each cache miss makes at
\* most 1 + max_retries lookups; used-up retries, any provider error and no
\* match are recorded as unresolved (counted, cached) and the pass goes on, so
\* the run over a finite table always reaches the write step and finishes.
C11_FailureNeverAborts == [](C11_Bounded) /\ <>(pc = "finished")

\* The first row's lookup has just used up its retries for a place the
\* service knows: the row counts as unresolved, its key is cached and the pass
\* stands before the second row.
C11_Witness ==
    /\ pc = "geocode"
    /\ Len(events) = 2
    /\ Len(applied) = 1
    /\ Len(queryLog) = 1
    /\ lookups = max_retries + 1
    /\ ~queryLog[1].found
    /\ geo[queryLog[1].query].found
    /\ queryLog[1].key \in DOMAIN geo_cache
    /\ stats.locations_unresolved = 1

-----------------------------------------------------------------------------
(* Properties of the query layer, continued *)

loadedYears ==
    { loaded[i].year : i \in { j \in DOMAIN loaded : notna(loaded[j].year) } }

\* C12: no query changes the shared table: after any sequence of map-mode and
\* time-lapse queries df is the table as loaded (rows, order, values), and the
\* result of a query is a function of that table and the selection alone.
C12_TableUnchanged ==
    /\ qpc \in {"map", "timelapse"} => df = loaded
    /\ qpc = "map" =>
          rowsOf(filtered) =
             { i \in DOMAIN loaded :
                 /\ loaded[i].year \in
                       (IF selected_year_labels = {} THEN loadedYears
                        ELSE UNION { Range(getYears(label_to_years(loaded), l)) :
                                       l \in selected_year_labels })
                 /\ (selected_types # {} => loaded[i].Sheet \in selected_types) }
    /\ qpc = "timelapse" =>
          rowsOf(df_tl) =
             { i \in DOMAIN loaded :
                 /\ notna(loaded[i].year)
                 /\ IF cumulative THEN loaded[i].year <= year_tl
                                  ELSE loaded[i].year = year_tl
                 /\ (selected_types_tl # {} => loaded[i].Sheet \in selected_types_tl) }

\* A time-lapse query, which follows the map query of the first run, showed
\* one row of a table of two; the other is still in the table.
C12_Witness ==
    /\ qpc = "timelapse"
    /\ Len(loaded) = 2
    /\ Len(df_tl) = 1
    /\ Len(df) = 2

-----------------------------------------------------------------------------
(* Properties of the pipeline: statistics and pass-through *)

candidatesHandled == { r \in handled : candidate(initial[r]) }

C13_Counts ==
    /\ stats.api_queries = stats.locations_geocoded + stats.locations_unresolved
    /\ stats.api_queries = Cardinality(DOMAIN geo_cache)
    /\ stats.cache_hits + stats.api_queries = Cardinality(candidatesHandled)

\* What handling one more row does to the counters.
C13_Step ==
    Len(applied') = Len(applied) + 1 =>
        LET row == initial[Len(applied')]
            d(f) == stats'[f] - stats[f]
        IN  /\ d("rows_total") = 0 /\ d("rows_with_missing") = 0
            /\ IF ~candidate(row)
               THEN stats' = stats
               ELSE IF cacheKey(row.Location) \in DOMAIN geo_cache
               THEN /\ d("cache_hits") = 1 /\ d("api_queries") = 0
                    /\ d("locations_geocoded") = 0 /\ d("locations_unresolved") = 0
               ELSE /\ d("cache_hits") = 0 /\ d("api_queries") = 1
                    /\ d("locations_geocoded") + d("locations_unresolved") = 1
                    /\ d("locations_geocoded") \in {0, 1}

\* C13: every resolution outcome updates the statistics exactly once: a hit
\* adds 1 to cache_hits only, a miss adds 1 to api_queries and to exactly one
\* of locations_geocoded and locations_unresolved; so after any prefix of the
\* pass api_queries = locations_geocoded + locations_unresolved = the number
\* of cache entries, and cache_hits + api_queries = the candidate rows handled.
C13_StatsExactlyOnce == [](C13_Counts) /\ [][C13_Step]_vars

\* A finished run with a resolved miss followed by a hit on its entry.
C13_Witness ==
    /\ pc = "finished"
    /\ stats.api_queries = 1
    /\ stats.cache_hits = 1
    /\ stats.locations_geocoded = 1
    /\ stats.locations_unresolved = 0

\* A location that is absent, not text, empty or made of whitespace only.
blank(place) == ~place.isStr \/ \A i \in DOMAIN place.s : place.s[i] = " "

notCandidate(row) == both(row) \/ blank(row.Location)

C14_Kept ==
    (pc \in {"save", "finished"}) =>
        \A r \in DOMAIN initial :
            notCandidate(initial[r]) => coords(events[r]) = coords(initial[r])

C14_Step ==
    (Len(applied') = Len(applied) + 1 /\ notCandidate(initial[Len(applied')])) =>
        /\ applied'[Len(applied')] = coords(initial[Len(applied')])
        /\ queryLog' = queryLog
        /\ geo_cache' = geo_cache
        /\ stats' = stats

\* C14: a row that is not a candidate (it has both coordinates, or it lacks
\* one and its location is absent, not text, empty or whitespace only) keeps
\* its Latitude and Longitude, and handling it issues no query, adds no cache
\* entry and changes no counter.
C14_PassThrough == [](C14_Kept) /\ [][C14_Step]_vars

\* A finished run in which a resolved row was followed by a row that lacks a
\* coordinate and has a whitespace-only location.
C14_Witness ==
    /\ pc = "finished"
    /\ Len(initial) = 2
    /\ resolved(1)
    /\ exactlyOne(initial[2])
    /\ initial[2].Location = Text(<<" ">>)
    /\ Len(queryLog) = 1

-----------------------------------------------------------------------------
(* Properties of the query layer: start-up *)

\* C15: absent or unparseable dates are never fatal to a session: for every
\* non-empty loaded table, one in which no row has a year included, start-up
\* (all_years, min and max year, decades, labels) completes without error and
\* the session answers queries.
C15_StartupNeverFails ==
    (loaded # << >> /\ qpc # "loaded") => qpc \in {"map", "timelapse"}

====
